---- MODULE Spec2Model ----
(***************************************************************************)
(* Request lifecycle (routes/requests.js + models/Request.js + the hourly  *)
(* sweep of utils/scheduler.js), its side effects (the chats of            *)
(* models/Chat.js, the notices of utils/notificationService.js) and        *)
(* location reporting (routes/users.js, routes/location.js,                *)
(* services/proximityService.js) of NeighbourBetBE.                        *)
(*                                                                         *)
(* One Request document is modelled.  Every route handler is an async      *)
(* function: between two awaits it runs without interruption, and at each  *)
(* await other handlers may run.  A handler is therefore split at its      *)
(* database round trips: findById (the snapshot it works on), save (the    *)
(* pre-save hooks followed by one atomic updateOne) and the writes after   *)
(* the save.                                                               *)
(*                                                                         *)
(* request.save() is Mongoose's: it sends only the paths the handler (or a *)
(* pre-save hook) modified.  An array push is sent as $push and increments *)
(* the version key __v without testing it; an array assignment is sent as  *)
(* $set of the whole array with the loaded __v in the filter, and fails    *)
(* with VersionError when the stored __v differs; a scalar is sent as $set *)
(* without touching __v.                                                   *)
(*                                                                         *)
(* A user's client has one request outstanding at a time: the calls in     *)
(* flight together are calls of different users.  The location reports of  *)
(* PutUsersLocationStore are the exception: one user reports from several  *)
(* devices.                                                                *)
(*                                                                         *)
(* POST /api/requests creates another Request document than the one        *)
(* followed; it is one step, with the await that rejects as an input.      *)
(***************************************************************************)
EXTENDS Integers, Sequences, FiniteSets, Bags, TLC

\* ---------------------------------------------------------------- bounds
MaxCalls == 3          \* handler invocations on the request in one run
MaxK == 2              \* largest maxAcceptors tried (the schema allows 1..10)
MaxInFlight == 2       \* handler invocations in flight at the same time
MaxTime == 2           \* the clock runs 0..MaxTime; the request expires at 1
MaxSent == 1           \* requests one user creates in one run

\* ----------------------------------------------------------------- users
Requester == "r"
Acceptors == {"u1", "u2"}
Third == "u3"                      \* one more user, for the runs with three acceptors
AllUsers == Acceptors \cup {Requester, Third}
Reporters == {"u1"}                \* the users that report their location
Residents == {"u1", "u2"}          \* the User documents of the nearby searches

Messages == {"", "hi"}             \* req.body.message, "" when absent
NewStatuses == {"completed", "cancelled"}
Ratings == {5}                     \* req.body.rating (0 stands for absent)
Feedbacks == {"fb"}                \* req.body.feedback ("" stands for absent)
Types == {"emergency", "help", "social"}
Tokens == {"t1", "t2"}             \* FCM registration tokens
NoDate == -1                       \* an unset Date field

VARIABLES
  now,            \* the wall clock read by new Date()
  req,            \* the persisted Request document
  calls,          \* the handler invocations in flight (a bag of records)
  nCalls,         \* the number of invocations that have arrived
  stats,          \* User.stats.requestsAccepted per user
  out,            \* the HTTP response sent by the last step, if any
  sweepCommitted, \* history: the sweep has written status expired
  recording,      \* the history variables of the request are kept in this run
  history,        \* history: the calls that have completed (a bag)
  sent,           \* the notifications and socket events the last step issued
  chats,          \* the persisted Chat documents of the request (a bag)
  deleted,        \* the Request document has been removed from the store
  created,        \* the Request document that the last POST /api/requests
                  \* has persisted
  redisOpen,      \* isOpen of the client created in utils/redisClient.js
  cells,          \* Redis hashes  cell id -> (user id -> "lat,lon")
  userKey,        \* Redis strings user:<id> -> cell id
  users,          \* User documents: location.coordinates, lastSeen,
                  \* isActive, settings.locationSharing, the three
                  \* settings.<type>Notifications, deviceTokens and
                  \* stats.requestsSent
  found,          \* the last findNearbyUsers call and what it returned
  reports,        \* history: the last completed location report per user
  upserts         \* history: the positions of the last two completed
                  \* updateUserLocation calls per user, latest last

reqVars == <<now, req, calls, nCalls, stats, out, sweepCommitted, recording, history, sent>>
storeVars == <<chats, deleted, created>>
locVars == <<redisOpen, cells, userKey, users, found, reports, upserts>>
vars == <<now, req, calls, nCalls, stats, out, sweepCommitted, recording, history,
          sent, chats, deleted, created,
          redisOpen, cells, userKey, users, found, reports, upserts>>

\* ------------------------------------------------------- sequence helpers
\* (mutant) the predicate inverted: acceptance.user === u
filterInverted(s, u) == SelectSeq(s, LAMBDA e : e.user = u)

RECURSIVE filter(_, _)
\* Array.prototype.filter with the predicate  acceptance.user !== u
filter(s, u) ==
  IF s = <<>> THEN <<>>
  ELSE IF Head(s).user # u THEN <<Head(s)>> \o filter(Tail(s), u)
       ELSE filter(Tail(s), u)

\* acceptedBy.some(acceptance => acceptance.user === u)
hasAccepted(doc, u) == \E i \in DOMAIN doc.acceptedBy : doc.acceptedBy[i].user = u

AcceptedUsers(doc) == {doc.acceptedBy[i].user : i \in DOMAIN doc.acceptedBy}

\* ------------------------------------------------------ models/Request.js
\* A new document: status defaults to active, the arrays to empty.
NewRequest(k, e) ==
  [ status |-> "active", requester |-> Requester, maxAcceptors |-> k,
    acceptedBy |-> <<>>, responses |-> <<>>, expiresAt |-> e,
    completedAt |-> NoDate, rating |-> 0, feedback |-> "", viewCount |-> 0,
    v |-> 0 ]

\* the clock counts milliseconds
Hours(h) == h * 60 * 60 * 1000

\* (mutant) one lifetime for every type
expiresAtDefaultUniform(type, t) == t + Hours(24)

\* the default of expiresAt: "Emergency requests expire in 4 hours, others
\* in 24 hours"
expiresAtDefault(type, t) == t + Hours(IF type = "emergency" THEN 4 ELSE 24)

\* pre('save') "Auto-expire requests"
autoExpire(doc, t) ==
  IF doc.expiresAt < t /\ doc.status = "active"
  THEN [doc EXCEPT !.status = "expired"] ELSE doc

\* pre('save') "Update request status when max acceptors reached"
maxAcceptorsReached(doc) ==
  IF Len(doc.acceptedBy) >= doc.maxAcceptors /\ doc.status = "active"
  THEN [doc EXCEPT !.status = "accepted"] ELSE doc

\* the two hooks in the order they are registered
preSave(doc, t) == maxAcceptorsReached(autoExpire(doc, t))

\* $set of the scalar paths whose value differs from the loaded one
setModified(stored, snap, mem) ==
  [ stored EXCEPT
      !.status = IF mem.status # snap.status THEN mem.status ELSE @,
      !.completedAt = IF mem.completedAt # snap.completedAt THEN mem.completedAt ELSE @,
      !.rating = IF mem.rating # snap.rating THEN mem.rating ELSE @,
      !.feedback = IF mem.feedback # snap.feedback THEN mem.feedback ELSE @,
      !.viewCount = IF mem.viewCount # snap.viewCount THEN mem.viewCount ELSE @ ]

\* ----------------------------------------------------- the calls in flight
\* a call after its findById: its inputs, the document it loaded (snap) and
\* where it stands; elapsed is history, expiresAt had passed when it loaded
Call(op, u, message, newStatus, rating, feedback, snap, pc) ==
  [ op |-> op, user |-> u, message |-> message, newStatus |-> newStatus,
    rating |-> rating, feedback |-> feedback, snap |-> snap,
    elapsed |-> (recording /\ op = "accept" /\ snap.expiresAt < now), pc |-> pc ]

InFlight == BagToSet(calls)
Arrive(c) == calls' = calls (+) SetToBag({c})
Advance(c, pc) == calls' = (calls (-) SetToBag({c})) (+) SetToBag({[c EXCEPT !.pc = pc]})
Leave(c) == calls' = calls (-) SetToBag({c})

\* the response of a handler, and the steps that send none
NoResponse == [op |-> "", user |-> "", result |-> ""]
Reply(op, u, result, issued) ==
  /\ out' = [op |-> op, user |-> u, result |-> result]
  /\ sent' = issued
Respond(op, u, result) == Reply(op, u, result, {})
Silent == out' = NoResponse /\ sent' = {}

\* history of the completed calls; a call that ended in a server error has
\* been rolled back and is not recorded
Summary(op, u, newStatus) == [op |-> op, user |-> u, newStatus |-> newStatus]
Record(s) == history' = IF recording THEN history (+) SetToBag({s}) ELSE history

\* ------------------------------------------- utils/notificationService.js
\* a push notification or a socket event: its recipients and whether the
\* transport delivered it
Notice(kind, to, delivered) == [kind |-> kind, to |-> to, delivered |-> delivered]

\* what a call of the service does to its caller (thrown) and the notices
\* it issues
Absorbed(issued) == [thrown |-> FALSE, issued |-> issued]

\* (mutant) the body without its try/catch, awaited by the handler
notifyRequestAcceptedUncaught(request, acceptor, pushOk) ==
  [ thrown |-> ~pushOk,
    issued |-> {Notice("request_accepted", {request.requester}, pushOk)} ]

\* notifyRequestAccepted: the requester's devices; an error of the
\* transport is caught and logged
notifyRequestAccepted(request, acceptor, pushOk) ==
  Absorbed({Notice("request_accepted", {request.requester}, pushOk)})

\* (mutant) the body without its try/catch, awaited by the handler
notifyRequestStatusChangeUncaught(request, newStatus, pushOk) ==
  [ thrown |-> AcceptedUsers(request) # {} /\ ~pushOk,
    issued |-> IF AcceptedUsers(request) = {} THEN {}
               ELSE {Notice("request_status_change", AcceptedUsers(request), pushOk)} ]

\* notifyRequestStatusChange: the devices of the users in request.acceptedBy
\* (nothing is sent when there is no token); errors are caught and logged
notifyRequestStatusChange(request, newStatus, pushOk) ==
  Absorbed(IF AcceptedUsers(request) = {} THEN {}
           ELSE {Notice("request_status_change", AcceptedUsers(request), pushOk)})

\* (mutant) the filter without the test of the preference
eligibleUsersWithTokens(request, nearbyUsers) ==
  {u \in nearbyUsers : users[u].deviceTokens # {}}

\* eligibleUsers: user.settings[`${request.type}Notifications`] is set and
\* user.deviceTokens is not empty
eligibleUsers(request, nearbyUsers) ==
  {u \in nearbyUsers :
     users[u][request.type \o "Notifications"] /\ users[u].deviceTokens # {}}

\* notifyNearbyUsersOfNewRequest: one multicast to the tokens of the
\* eligible users (to holds the tokens); nothing is sent when there is no
\* nearby user, no eligible user or no token; errors are caught and logged.
\* The Firebase credentials are configured.
notifyNearbyUsersOfNewRequest(request, nearbyUsers, pushOk) ==
  LET deviceTokens == UNION {users[u].deviceTokens : u \in eligibleUsers(request, nearbyUsers)}
  IN Absorbed(IF deviceTokens = {} THEN {}
              ELSE {Notice("new_request", deviceTokens, pushOk)})

\* broadcastNewRequestToNearbyUsers: 'newNearbyRequest' to the room of each
\* nearby user; the body is in a try/catch that logs
broadcastNewRequestToNearbyUsers(nearbyUsers, socketOk) ==
  Absorbed(IF nearbyUsers = {} THEN {} ELSE {Notice("newNearbyRequest", nearbyUsers, socketOk)})

\* io.emit('requestStatusUpdate', ...): to every connected socket; the call
\* returns whether or not the event reaches them
emitStatusUpdate(socketOk) == {Notice("requestStatusUpdate", AllUsers, socketOk)}

\* --------------------------------------------------------- models/Chat.js
\* the order of the user ids under Array.prototype.sort
IdOrder == <<"r", "u1", "u2", "u3">>
Rank(u) == CHOOSE i \in DOMAIN IdOrder : IdOrder[i] = u

\* participants.sort(), for the two ids findOrCreate is called with
sortParticipants(participants) ==
  IF Rank(participants[1]) <= Rank(participants[2]) THEN participants
  ELSE <<participants[2], participants[1]>>

\* new Chat({participants: sortedParticipants, request: requestId})
Chat(sortedParticipants) ==
  [participants |-> sortedParticipants, request |-> "request"]

\* findOne({participants: {$all: sortedParticipants}, request: requestId})
findChat(store, sortedParticipants) ==
  { c \in BagToSet(store) :
      /\ \A i \in DOMAIN sortedParticipants :
           \E j \in DOMAIN c.participants : c.participants[j] = sortedParticipants[i]
      /\ c.request = "request" }

\* ------------------------------------------- POST /api/requests/:id/accept
\* (mutant) the status test placed before the test of the caller
acceptChecksStatusFirst(request, u) ==
  IF request.status # "active" THEN "NotActive"
  ELSE IF request.requester = u THEN "SelfAcceptance"
  ELSE IF hasAccepted(request, u) THEN "AlreadyAccepted"
  ELSE IF Len(request.acceptedBy) >= request.maxAcceptors THEN "CapacityReached"
  ELSE "pass"

\* the checks between findById and the push, in source order
acceptChecks(request, u) ==
  IF request.requester = u THEN "SelfAcceptance"
  ELSE IF request.status # "active" THEN "NotActive"
  ELSE IF hasAccepted(request, u) THEN "AlreadyAccepted"
  ELSE IF Len(request.acceptedBy) >= request.maxAcceptors THEN "CapacityReached"
  ELSE "pass"

Acceptance(u) == [user |-> u, status |-> "pending"]
Response(u, message) == [user |-> u, message |-> message, responseType |-> "accept"]

\* the document in memory after the two pushes
acceptInMemory(request, u, message) ==
  [ request EXCEPT
      !.acceptedBy = Append(@, Acceptance(u)),
      !.responses = IF message # "" THEN Append(@, Response(u, message)) ELSE @ ]

\* findById, the four checks and the pushes
acceptArrives(u, message) ==
  /\ nCalls' = nCalls + 1
  /\ LET request == req
         outcome == IF deleted THEN "NotFound" ELSE acceptChecks(request, u)
     IN IF outcome = "pass"
        THEN /\ Arrive(Call("accept", u, message, "", 0, "", request, "save"))
             /\ Silent
             /\ UNCHANGED history
        ELSE /\ Respond("accept", u, outcome)
             /\ Record(Summary("accept", u, ""))
             /\ UNCHANGED calls
  /\ UNCHANGED <<now, req, stats, sweepCommitted, recording>>
  /\ UNCHANGED locVars
  /\ UNCHANGED storeVars

\* an accept of a user who has no other call in flight
AcceptLoad(u, message) ==
  /\ nCalls < MaxCalls /\ BagCardinality(calls) < MaxInFlight
  /\ \A d \in InFlight : d.user # u
  /\ acceptArrives(u, message)

\* an accept sent while another accept of the same user is in flight (a
\* second device, a repeated tap): the same handler
AcceptLoadAgain(u, message) ==
  /\ nCalls < MaxCalls /\ BagCardinality(calls) < MaxInFlight
  /\ \E d \in InFlight : d.user = u /\ d.op = "accept"
  /\ acceptArrives(u, message)

\* (mutant) the save persists nothing
acceptWriteNothing(stored, c, t) == stored

\* what accept's save() writes: $push of the new entries, $inc of __v,
\* $set of status when a hook changed it
acceptWrite(stored, c, t) ==
  LET mem == preSave(acceptInMemory(c.snap, c.user, c.message), t)
      pushed == [ stored EXCEPT
                    !.acceptedBy = Append(@, Acceptance(c.user)),
                    !.responses = IF c.message # ""
                                  THEN Append(@, Response(c.user, c.message)) ELSE @,
                    !.v = @ + 1 ]
  IN setModified(pushed, c.snap, mem)

\* save(); the update matches no document when the request has been
\* deleted, the error is caught: 500 Server error
AcceptSave ==
  \E c \in InFlight :
    /\ c.op = "accept" /\ c.pc = "save"
    /\ IF deleted
       THEN /\ Leave(c)
            /\ Respond("accept", c.user, "ServerError")
            /\ UNCHANGED req
       ELSE /\ req' = acceptWrite(req, c, now)
            /\ Advance(c, "post")
            /\ Silent
    /\ UNCHANGED <<now, nCalls, stats, sweepCommitted, recording, history>>
    /\ UNCHANGED locVars
    /\ UNCHANGED storeVars

\* the end of the handler: notifyRequestAccepted (not awaited), io.emit and
\* the 200 response; an exception in the try block gives 500 Server error
acceptResponds(c, pushOk, socketOk) ==
  LET n == notifyRequestAccepted(c.snap, c.user, pushOk)
  IN /\ Leave(c)
     /\ IF n.thrown
        THEN Reply("accept", c.user, "ServerError", n.issued)
        ELSE Reply("accept", c.user, "ok", n.issued \cup emitStatusUpdate(socketOk))
     /\ Record(Summary("accept", c.user, ""))

\* User.findByIdAndUpdate($inc requestsAccepted: 1) and the findOne of
\* Chat.findOrCreate([request.requester, req.user.id], request._id); when
\* the chat is there the handler goes on to its end
AcceptPost(pushOk, socketOk) ==
  \E c \in InFlight :
    /\ c.op = "accept" /\ c.pc = "post"
    /\ stats' = [stats EXCEPT ![c.user] = @ + 1]
    /\ IF findChat(chats, sortParticipants(<<c.snap.requester, c.user>>)) = {}
       THEN /\ Advance(c, "chat")
            /\ Silent
            /\ UNCHANGED history
       ELSE acceptResponds(c, pushOk, socketOk)
    /\ UNCHANGED <<now, req, nCalls, sweepCommitted, recording>>
    /\ UNCHANGED locVars
    /\ UNCHANGED storeVars

\* chat.save() of findOrCreate, which found no chat, and the end of the
\* handler
AcceptChat(pushOk, socketOk) ==
  \E c \in InFlight :
    /\ c.op = "accept" /\ c.pc = "chat"
    /\ chats' = chats (+) SetToBag({Chat(sortParticipants(<<c.snap.requester, c.user>>))})
    /\ acceptResponds(c, pushOk, socketOk)
    /\ UNCHANGED <<now, req, nCalls, stats, sweepCommitted, recording, deleted, created>>
    /\ UNCHANGED locVars

\* An await after request.save() rejects and the catch of the handler
\* answers 500: the $inc of stats.requestsAccepted (failsAt "stats"), or a
\* query of Chat.findOrCreate (failsAt "chat": its findOne, the counter
\* being incremented, or its save).  Nothing undoes the save.
AcceptRejected(failsAt) ==
  \E c \in InFlight :
    /\ c.op = "accept"
    /\ \/ c.pc = "post" /\ failsAt = "stats" /\ UNCHANGED stats
       \/ c.pc = "post" /\ failsAt = "chat" /\ stats' = [stats EXCEPT ![c.user] = @ + 1]
       \/ c.pc = "chat" /\ failsAt = "chat" /\ UNCHANGED stats
    /\ Leave(c)
    /\ Respond("accept", c.user, "ServerError")
    /\ UNCHANGED <<now, req, nCalls, sweepCommitted, recording, history>>
    /\ UNCHANGED locVars
    /\ UNCHANGED storeVars

\* ----------------------------------------- DELETE /api/requests/:id/accept
CancelLoad(u) ==
  /\ nCalls < MaxCalls /\ BagCardinality(calls) < MaxInFlight
  /\ \A d \in InFlight : d.user # u
  /\ nCalls' = nCalls + 1
  /\ IF deleted
     THEN /\ Respond("cancel", u, "NotFound")
          /\ UNCHANGED calls
     ELSE /\ Arrive(Call("cancel", u, "", "", 0, "", req, "save"))
          /\ Silent
  /\ UNCHANGED <<now, req, stats, sweepCommitted, recording, history>>
  /\ UNCHANGED locVars
  /\ UNCHANGED storeVars

\* the array assignment marks acceptedBy modified only when the filter
\* removed something
cancelModifiesArray(c) == filter(c.snap.acceptedBy, c.user) # c.snap.acceptedBy

\* (mutant) the array is $set without the version in the filter
versionMatchesUnchecked(stored, c) == TRUE

\* the filter of the updateOne: the loaded __v when the array is $set
versionMatches(stored, c) == stored.v = c.snap.v

\* (mutant) the cancel reopens a request that has a free slot again
cancelInMemoryReopens(c) ==
  [ c.snap EXCEPT
      !.acceptedBy = filter(@, c.user),
      !.status = IF @ = "accepted" /\ Len(filter(c.snap.acceptedBy, c.user)) < c.snap.maxAcceptors
                 THEN "active" ELSE @ ]

\* request.acceptedBy = request.acceptedBy.filter(...)
cancelInMemory(c) == [c.snap EXCEPT !.acceptedBy = filter(@, c.user)]

cancelWrite(stored, c, t) ==
  LET mem == preSave(cancelInMemory(c), t)
      arr == IF cancelModifiesArray(c)
             THEN [stored EXCEPT !.acceptedBy = mem.acceptedBy, !.v = @ + 1]
             ELSE stored
  IN setModified(arr, c.snap, mem)

CancelSave ==
  \E c \in InFlight :
    /\ c.op = "cancel" /\ c.pc = "save"
    /\ IF deleted \/ (cancelModifiesArray(c) /\ ~versionMatches(req, c))
       THEN \* no document matched or VersionError, caught: 500 Server error
            /\ Leave(c)
            /\ Respond("cancel", c.user, "ServerError")
            /\ UNCHANGED req
       ELSE /\ req' = cancelWrite(req, c, now)
            /\ Advance(c, "post")
            /\ Silent
    /\ UNCHANGED <<now, nCalls, stats, sweepCommitted, recording, history>>
    /\ UNCHANGED locVars
    /\ UNCHANGED storeVars

\* User.findByIdAndUpdate($inc requestsAccepted: -1), then the 200 response
CancelPost ==
  \E c \in InFlight :
    /\ c.op = "cancel" /\ c.pc = "post"
    /\ stats' = [stats EXCEPT ![c.user] = @ - 1]
    /\ Leave(c)
    /\ Respond("cancel", c.user, "ok")
    /\ Record(Summary("cancel", c.user, ""))
    /\ UNCHANGED <<now, req, nCalls, sweepCommitted, recording>>
    /\ UNCHANGED locVars
    /\ UNCHANGED storeVars

\* -------------------------------------------- PUT /api/requests/:id/status
\* (mutant) the test of the caller left out
statusChecksAnyone(request, u) == "pass"

\* request.requester.toString() !== req.user.id
statusChecks(request, u) == IF request.requester # u THEN "Forbidden" ELSE "pass"

StatusLoad(u, newStatus, rating, feedback) ==
  /\ nCalls < MaxCalls /\ BagCardinality(calls) < MaxInFlight
  /\ \A d \in InFlight : d.user # u
  /\ nCalls' = nCalls + 1
  /\ IF deleted
     THEN /\ Respond("status", u, "NotFound")
          /\ UNCHANGED <<calls, history>>
     ELSE IF statusChecks(req, u) # "pass"
     THEN /\ Respond("status", u, statusChecks(req, u))
          /\ Record(Summary("status", u, newStatus))
          /\ UNCHANGED calls
     ELSE /\ Arrive(Call("status", u, "", newStatus, rating, feedback, req, "save"))
          /\ Silent
          /\ UNCHANGED history
  /\ UNCHANGED <<now, req, stats, sweepCommitted, recording>>
  /\ UNCHANGED locVars
  /\ UNCHANGED storeVars

\* the assignments between findById and save; new Date() is read at t
statusInMemory(c, t) ==
  IF c.newStatus = "completed"
  THEN [ c.snap EXCEPT
           !.status = c.newStatus,
           !.completedAt = t,
           !.rating = IF c.rating # 0 THEN c.rating ELSE @,
           !.feedback = IF c.feedback # "" THEN c.feedback ELSE @ ]
  ELSE [c.snap EXCEPT !.status = c.newStatus]

statusWrite(stored, c, t) == setModified(stored, c.snap, preSave(statusInMemory(c, t), t))

\* save(), then notifyRequestStatusChange (not awaited), io.emit and the
\* 200 response
StatusSave(pushOk, socketOk) ==
  \E c \in InFlight :
    /\ c.op = "status" /\ c.pc = "save"
    /\ Leave(c)
    /\ IF deleted
       THEN /\ Respond("status", c.user, "ServerError")
            /\ UNCHANGED <<req, history>>
       ELSE LET n == notifyRequestStatusChange(c.snap, c.newStatus, pushOk)
            IN /\ req' = statusWrite(req, c, now)
               /\ IF n.thrown
                  THEN Reply("status", c.user, "ServerError", n.issued)
                  ELSE Reply("status", c.user, "ok", n.issued \cup emitStatusUpdate(socketOk))
               /\ Record(Summary("status", c.user, c.newStatus))
    /\ UNCHANGED <<now, nCalls, stats, sweepCommitted, recording>>
    /\ UNCHANGED locVars
    /\ UNCHANGED storeVars

\* --------------------------------------------------- GET /api/requests/:id
\* findById; a caller other than the requester counts as a view and saves
GetLoad(u) ==
  /\ nCalls < MaxCalls /\ BagCardinality(calls) < MaxInFlight
  /\ \A d \in InFlight : d.user # u
  /\ nCalls' = nCalls + 1
  /\ IF deleted
     THEN /\ Respond("get", u, "NotFound")
          /\ UNCHANGED calls
     ELSE IF req.requester # u
     THEN /\ Arrive(Call("get", u, "", "", 0, "", req, "save"))
          /\ Silent
     ELSE /\ Respond("get", u, "ok")
          /\ UNCHANGED calls
  /\ UNCHANGED <<now, req, stats, sweepCommitted, recording, history>>
  /\ UNCHANGED locVars
  /\ UNCHANGED storeVars

\* request.viewCount += 1
getInMemory(c) == [c.snap EXCEPT !.viewCount = @ + 1]

getWrite(stored, c, t) == setModified(stored, c.snap, preSave(getInMemory(c), t))

\* save() and the 200 response
GetSave ==
  \E c \in InFlight :
    /\ c.op = "get" /\ c.pc = "save"
    /\ Leave(c)
    /\ IF deleted
       THEN /\ Respond("get", c.user, "ServerError")
            /\ UNCHANGED req
       ELSE /\ req' = getWrite(req, c, now)
            /\ Respond("get", c.user, "ok")
    /\ UNCHANGED <<now, nCalls, stats, sweepCommitted, recording, history>>
    /\ UNCHANGED locVars
    /\ UNCHANGED storeVars

\* ------------------------- GET /api/chat/request/:requestId/user/:userId
\* the caller is the requester or is in acceptedBy
chatChecks(request, u) ==
  IF request.requester # u /\ ~hasAccepted(request, u) THEN "Forbidden" ELSE "pass"

\* a call of the chat route: userId is the other participant
ChatCall(u, userId, pc) ==
  [Call("chat", u, "", "", 0, "", req, pc) EXCEPT !.message = userId]

\* Request.findById and the test of the caller
ChatLoad(u, userId) ==
  /\ nCalls < MaxCalls /\ BagCardinality(calls) < MaxInFlight
  /\ \A d \in InFlight : d.user # u
  /\ nCalls' = nCalls + 1
  /\ LET outcome == IF deleted THEN "NotFound" ELSE chatChecks(req, u)
     IN IF outcome = "pass"
        THEN /\ Arrive(ChatCall(u, userId, "find"))
             /\ Silent
        ELSE /\ Respond("chat", u, outcome)
             /\ UNCHANGED calls
  /\ UNCHANGED <<now, req, stats, sweepCommitted, recording, history>>
  /\ UNCHANGED locVars
  /\ UNCHANGED storeVars

\* the findOne of Chat.findOrCreate([req.user.id, userId], requestId); the
\* chat found is returned and the route answers 200
ChatFind ==
  \E c \in InFlight :
    /\ c.op = "chat" /\ c.pc = "find"
    /\ IF findChat(chats, sortParticipants(<<c.user, c.message>>)) = {}
       THEN /\ Advance(c, "create")
            /\ Silent
       ELSE /\ Leave(c)
            /\ Respond("chat", c.user, "ok")
    /\ UNCHANGED <<now, req, nCalls, stats, sweepCommitted, recording, history>>
    /\ UNCHANGED locVars
    /\ UNCHANGED storeVars

\* chat.save() of findOrCreate, which found no chat, and the 200 response
ChatCreate ==
  \E c \in InFlight :
    /\ c.op = "chat" /\ c.pc = "create"
    /\ chats' = chats (+) SetToBag({Chat(sortParticipants(<<c.user, c.message>>))})
    /\ Leave(c)
    /\ Respond("chat", c.user, "ok")
    /\ UNCHANGED <<now, req, nCalls, stats, sweepCommitted, recording, history, deleted, created>>
    /\ UNCHANGED locVars

\* ------------------------------------------------ DELETE /api/requests/:id
\* the checks between findById and findByIdAndDelete, in source order
deleteChecks(request, u) ==
  IF request.requester # u THEN "Forbidden"
  ELSE IF Len(request.acceptedBy) > 0 THEN "HasAcceptances"
  ELSE "pass"

DeleteLoad(u) ==
  /\ nCalls < MaxCalls /\ BagCardinality(calls) < MaxInFlight
  /\ \A d \in InFlight : d.user # u
  /\ nCalls' = nCalls + 1
  /\ LET outcome == IF deleted THEN "NotFound" ELSE deleteChecks(req, u)
     IN IF outcome = "pass"
        THEN /\ Arrive(Call("delete", u, "", "", 0, "", req, "delete"))
             /\ Silent
        ELSE /\ Respond("delete", u, outcome)
             /\ UNCHANGED calls
  /\ UNCHANGED <<now, req, stats, sweepCommitted, recording, history>>
  /\ UNCHANGED locVars
  /\ UNCHANGED storeVars

\* Request.findByIdAndDelete(req.params.id) and the 200 response
DeleteCommit ==
  \E c \in InFlight :
    /\ c.op = "delete" /\ c.pc = "delete"
    /\ deleted' = TRUE
    /\ Leave(c)
    /\ Respond("delete", c.user, "ok")
    /\ UNCHANGED <<now, req, nCalls, stats, sweepCommitted, recording, history, chats, created>>
    /\ UNCHANGED locVars

\* ------------------------------------------------------ utils/scheduler.js
\* (mutant) the filter with $lt in place of $lte
sweepMatchesStrictly(stored, t) == stored.expiresAt < t /\ stored.status = "active"

\* Request.updateMany({expiresAt <= now, status active}, {status expired});
\* the update of a document is atomic, and a sweep whose new Date() was
\* read earlier matches no document that a sweep at the current time does
\* not match
sweepMatches(stored, t) == stored.expiresAt <= t /\ stored.status = "active"

sweep(stored, t) ==
  IF sweepMatches(stored, t) THEN [stored EXCEPT !.status = "expired"] ELSE stored

cleanupExpiredRequests ==
  /\ req' = sweep(req, now)
  /\ sweepCommitted' = (recording /\ (sweepCommitted \/ sweepMatches(req, now)))
  /\ Silent
  /\ UNCHANGED <<now, calls, nCalls, stats, recording, history>>
  /\ UNCHANGED locVars
  /\ UNCHANGED storeVars

Tick ==
  /\ now < MaxTime
  /\ now' = now + 1
  /\ Silent
  /\ UNCHANGED <<req, calls, nCalls, stats, sweepCommitted, recording, history>>
  /\ UNCHANGED locVars
  /\ UNCHANGED storeVars

\* ---------------------------------------------------- utils/redisClient.js
\* the client made by createClient(); isOpen follows the connection
RedisClient == [isOpen |-> redisOpen]

\* module.exports = { redisClient, connectRedis }
RedisClientExports == [redisClient |-> RedisClient, connectRedis |-> "connectRedis"]

\* the connection is lost ('end') and re-established by reconnectStrategy
RedisEnd ==
  /\ redisOpen
  /\ redisOpen' = FALSE
  /\ UNCHANGED <<cells, userKey, users, found, reports, upserts>>
  /\ UNCHANGED reqVars
  /\ UNCHANGED storeVars

RedisReady ==
  /\ ~redisOpen
  /\ redisOpen' = TRUE
  /\ UNCHANGED <<cells, userKey, users, found, reports, upserts>>
  /\ UNCHANGED reqVars
  /\ UNCHANGED storeVars

\* ------------------------------------------- services/proximityService.js
\* const redisClient = require('../utils/redisClient'): the name is bound
\* to the whole exports object, not to its redisClient property
ImportedRedisClient == RedisClientExports

\* (mutant) the connection is taken to be open
isOpenAlways(obj) == TRUE

\* obj.isOpen: the value of the property, undefined (falsy) when obj has none
isOpen(obj) == IF "isOpen" \in DOMAIN obj THEN obj.isOpen ELSE FALSE

\* coordinates are in thousandths of a degree; CELL_SIZE_DEGREES = 0.01
CELL_SIZE == 10

Positions ==
  { [latitude |-> 1, longitude |-> 1],
    [latitude |-> 1, longitude |-> 15],
    [latitude |-> -5, longitude |-> 1] }

\* `cell:${floor(longitude / S)}:${floor(latitude / S)}`
getCellId(latitude, longitude) ==
  <<"cell", longitude \div CELL_SIZE, latitude \div CELL_SIZE>>

cellOf(p) == getCellId(p.latitude, p.longitude)

\* the hash field value `${latitude},${longitude}`
Coords(latitude, longitude) == <<latitude, longitude>>

Nil == <<>>
\* GET user:<id>
redisGet(keys, userId) == IF userId \in DOMAIN keys THEN keys[userId] ELSE Nil
\* HDEL cell user
hDel(hashes, cellId, userId) == {e \in hashes : ~(e.cell = cellId /\ e.user = userId)}
\* HSET cell user value
hSet(hashes, cellId, userId, value) ==
  hDel(hashes, cellId, userId) \cup {[cell |-> cellId, user |-> userId, value |-> value]}
\* SET user:<id> cell
redisSet(keys, userId, cellId) ==
  [k \in DOMAIN keys \cup {userId} |-> IF k = userId THEN cellId ELSE keys[k]]

\* the grid: the cell hashes and the reverse lookups
Index(hashes, keys) == [cells |-> hashes, userKey |-> keys]

\* (mutant) no test of the connection, and the hash of the new cell is
\* replaced by the one member
updatedIndexOneMember(index, userId, latitude, longitude) ==
  LET newCellId == getCellId(latitude, longitude)
  IN Index({e \in index.cells : e.cell # newCellId /\ e.user # userId}
             \cup {[cell |-> newCellId, user |-> userId, value |-> Coords(latitude, longitude)]},
           redisSet(index.userKey, userId, newCellId))

\* updateUserLocation as a function of the grid it is called on: the grid
\* it leaves.  The first statement returns whenever isOpen of the imported
\* object is falsy.  The imported object is the exports object, which has
\* no isOpen, so the statements after the guard are never reached; they
\* are kept here as the code has them (GET, then MULTI: HDEL, HSET, SET;
\* EXEC).
updatedIndex(index, userId, latitude, longitude) ==
  IF ~isOpen(ImportedRedisClient)
  THEN index
  ELSE LET newCellId == getCellId(latitude, longitude)
           oldCellId == redisGet(index.userKey, userId)
           removed == IF oldCellId # Nil /\ oldCellId # newCellId
                      THEN hDel(index.cells, oldCellId, userId) ELSE index.cells
       IN Index(hSet(removed, newCellId, userId, Coords(latitude, longitude)),
                redisSet(index.userKey, userId, newCellId))

updateUserLocation(userId, latitude, longitude) ==
  LET after == updatedIndex(Index(cells, userKey), userId, latitude, longitude)
  IN cells' = after.cells /\ userKey' = after.userKey

\* the cells whose hash holds the user
MemberCells(u) == {e.cell : e \in {x \in cells : x.user = u}}

Report(route, p) == [route |-> route, position |-> p, indexOpen |-> redisOpen]
NoReport == [route |-> "", position |-> Nil, indexOpen |-> FALSE]
LastTwo(s, p) == IF Len(s) < 2 THEN Append(s, p) ELSE <<s[2], p>>

\* -------------------------------------------------- PUT /api/users/location
\* User.findByIdAndUpdate(location), then ProximityService.updateUserLocation
PutUsersLocation(u, p) ==
  /\ users' = [users EXCEPT ![u].coordinates = <<p.longitude, p.latitude>>]
  /\ updateUserLocation(u, p.latitude, p.longitude)
  /\ reports' = [reports EXCEPT ![u] = Report("PUT /api/users/location", p)]
  /\ upserts' = [upserts EXCEPT ![u] = LastTwo(@, p)]
  /\ UNCHANGED <<redisOpen, found>>
  /\ UNCHANGED reqVars
  /\ UNCHANGED storeVars

\* The same handler with its two awaits apart, so that the calls of one
\* user or of several overlap: a call after its findByIdAndUpdate; during
\* is history, the users whose call was in flight when this one arrived
LocationCall(u, p) ==
  [ Call("location", u, "", "", 0, "", Nil, "index") EXCEPT
      !.snap = [position |-> p,
                during |-> {d.user : d \in {e \in InFlight : e.op = "location"}}] ]

\* User.findByIdAndUpdate(location)
PutUsersLocationStore(u, p) ==
  /\ nCalls < MaxCalls /\ BagCardinality(calls) < MaxInFlight
  /\ nCalls' = nCalls + 1
  /\ users' = [users EXCEPT ![u].coordinates = <<p.longitude, p.latitude>>]
  /\ Arrive(LocationCall(u, p))
  /\ Silent
  /\ UNCHANGED <<now, req, stats, sweepCommitted, recording, history>>
  /\ UNCHANGED <<redisOpen, cells, userKey, found, reports, upserts>>
  /\ UNCHANGED storeVars

\* ProximityService.updateUserLocation, awaited, and the 200 response
PutUsersLocationIndex ==
  \E c \in InFlight :
    /\ c.op = "location" /\ c.pc = "index"
    /\ updateUserLocation(c.user, c.snap.position.latitude, c.snap.position.longitude)
    /\ reports' = [reports EXCEPT ![c.user] = Report("PUT /api/users/location", c.snap.position)]
    /\ upserts' = [upserts EXCEPT ![c.user] = LastTwo(@, c.snap.position)]
    /\ Leave(c)
    /\ Respond("location", c.user, "ok")
    /\ Record([op |-> "location", user |-> c.user, during |-> c.snap.during])
    /\ UNCHANGED <<now, req, nCalls, stats, sweepCommitted, recording>>
    /\ UNCHANGED <<redisOpen, users, found>>
    /\ UNCHANGED storeVars

\* -------------------------------------------------------- PUT /api/location
\* User.findByIdAndUpdate(location) and nothing else
PutLocation(u, p) ==
  /\ users' = [users EXCEPT ![u].coordinates = <<p.longitude, p.latitude>>]
  /\ reports' = [reports EXCEPT ![u] = Report("PUT /api/location", p)]
  /\ UNCHANGED <<redisOpen, cells, userKey, found, upserts>>
  /\ UNCHANGED reqVars
  /\ UNCHANGED storeVars

\* ------------------------------------------------- POST /api/location/share
\* User.findByIdAndUpdate(location, lastSeen) and nothing else
PostLocationShare(u, p) ==
  /\ users' = [users EXCEPT ![u].coordinates = <<p.longitude, p.latitude>>,
                            ![u].lastSeen = now]
  /\ reports' = [reports EXCEPT ![u] = Report("POST /api/location/share", p)]
  /\ UNCHANGED <<redisOpen, cells, userKey, found, upserts>>
  /\ UNCHANGED reqVars
  /\ UNCHANGED storeVars

\* ------------------------------------------------------- models/User.js
\* a new document: location.coordinates defaults to [0, 0], isActive and
\* the settings to true, deviceTokens to empty, stats.requestsSent to 0
NewUser ==
  [ coordinates |-> <<0, 0>>, lastSeen |-> NoDate, isActive |-> TRUE,
    locationSharing |-> TRUE, emergencyNotifications |-> TRUE,
    helpNotifications |-> TRUE, socialNotifications |-> TRUE,
    deviceTokens |-> {}, requestsSent |-> 0 ]

\* metres per thousandth of a degree on the sphere of R = 6371 km
\* (R * pi / 180, truncated)
MetresPerUnit == 111

\* the square of getDistanceInKm, in metres: the positions of the model are
\* within a few hundredths of a degree of the equator, where the haversine
\* distance is the planar one
squaredDistanceInM(lat1, lon1, lat2, lon2) ==
  ((lat2 - lat1) * (lat2 - lat1) + (lon2 - lon1) * (lon2 - lon1))
    * MetresPerUnit * MetresPerUnit

\* distance <= metres, for a whole number of kilometres (radiusKm * 1000),
\* on the squares and in whole square kilometres: the square of 50 km in
\* metres is beyond 32-bit integers
within(squaredM, metres) ==
  (squaredM + 999999) \div 1000000 <= (metres \div 1000) * (metres \div 1000)

\* $near with $maxDistance (metres) around [longitude, latitude]
near(coordinates, center, maxDistance) ==
  within(squaredDistanceInM(center[2], center[1], coordinates[2], coordinates[1]),
         maxDistance)

\* (mutant) the radius query without the two flags
findNearbyUnfiltered(coordinates, radius) ==
  {u \in DOMAIN users : near(users[u].coordinates, coordinates, radius * 1000)}

\* userSchema.statics.findNearby: the ids of the documents it returns
findNearby(coordinates, radius) ==
  {u \in DOMAIN users :
     /\ near(users[u].coordinates, coordinates, radius * 1000)
     /\ users[u].isActive
     /\ users[u].locationSharing}

\* ------------------------------------------------------ middleware/auth.js
\* protect: a deactivated account is answered 401 on every route
protect(u) == users[u].isActive

\* ------------------------------------------- services/proximityService.js
\* the 3x3 block of cells around the cell of the origin
NineCells(latitude, longitude) ==
  LET originCellX == longitude \div CELL_SIZE
      originCellY == latitude \div CELL_SIZE
  IN {<<"cell", x, y>> : x \in (originCellX - 1)..(originCellX + 1),
                         y \in (originCellY - 1)..(originCellY + 1)}

\* nearbyUserIds: the members of the scanned cells within radiusKm
scanCells(hashes, latitude, longitude, radiusKm) ==
  {e.user : e \in {m \in hashes :
     /\ m.cell \in NineCells(latitude, longitude)
     /\ within(squaredDistanceInM(latitude, longitude, m.value[1], m.value[2]),
               radiusKm * 1000)}}

\* (mutant) the scan is made without testing the connection
findNearbyUsersScanOnly(latitude, longitude, radiusKm) ==
  LET ids == scanCells(cells, latitude, longitude, radiusKm)
  IN [ path |-> "index", scanned |-> NineCells(latitude, longitude),
       users |-> {u \in ids \cap DOMAIN users :
                    users[u].isActive /\ users[u].locationSharing} ]

\* The first statement delegates to User.findNearby whenever isOpen of the
\* imported object is falsy, which it always is (see ImportedRedisClient);
\* the scan after it is kept as the code has it.  A store exception during
\* the scan is caught and answered with the same $near query.
findNearbyUsers(latitude, longitude, radiusKm) ==
  IF ~isOpen(ImportedRedisClient)
  THEN [ path |-> "fallback", scanned |-> {},
         users |-> findNearby(<<longitude, latitude>>, radiusKm) ]
  ELSE LET ids == scanCells(cells, latitude, longitude, radiusKm)
       IN [ path |-> "index", scanned |-> NineCells(latitude, longitude),
            users |-> {u \in ids \cap DOMAIN users :
                         users[u].isActive /\ users[u].locationSharing} ]

\* ------------------------------------------------------ POST /api/requests
Origins == { [latitude |-> 0, longitude |-> 0], [latitude |-> 0, longitude |-> -15] }
RadiiKm == {1, 5}                  \* req.body.radius, an integer of 1..50
\* radius = 5 when the body gives none
DefaultRadius == 5
\* maxAcceptors = 3 when the body gives none
DefaultMaxAcceptors == 3

NoFind ==
  [ latitude |-> 0, longitude |-> 0, radiusKm |-> 0, indexOpen |-> FALSE,
    path |-> "", scanned |-> {}, users |-> {}, inRadius |-> {} ]

\* req.body: type and coordinates ([longitude, latitude]); radius and
\* maxAcceptors are optional fields (title, description and address are
\* well-formed in every body tried)
Body(type, origin) == [type |-> type, coordinates |-> <<origin.longitude, origin.latitude>>]

\* (mutant) the validators of radius and maxAcceptors removed
validationErrorsOfTypeOnly(body) == {f \in {"type"} : body.type \notin Types}

\* validationResult(req): the fields whose validator fails; radius and
\* maxAcceptors are optional().isInt within their ranges
validationErrors(body) ==
  {f \in {"type"} : body.type \notin Types}
  \cup {f \in {"radius"} \cap DOMAIN body : body.radius \notin 1..50}
  \cup {f \in {"maxAcceptors"} \cap DOMAIN body : body.maxAcceptors \notin 1..10}

\* Request.create: the document built from the body, the defaults of the
\* handler and of the schema, after the pre-save hooks
create(body, u, t) ==
  LET radius == IF "radius" \in DOMAIN body THEN body.radius ELSE DefaultRadius
      maxAcceptors == IF "maxAcceptors" \in DOMAIN body THEN body.maxAcceptors
                      ELSE DefaultMaxAcceptors
  IN preSave([ status |-> "active", requester |-> u, type |-> body.type,
               radius |-> radius, maxAcceptors |-> maxAcceptors,
               acceptedBy |-> <<>>, expiresAt |-> expiresAtDefault(body.type, t),
               createdAt |-> t ], t)

\* the awaits of the handler that reach the database; one of them may reject
Steps == {"create", "stats", "find"}

\* The whole handler: validation, Request.create, $inc of the caller's
\* stats.requestsSent, the search for the users to notify, the broadcast
\* and the notification (neither awaited) and the 201 response; failsAt
\* names the await that rejects ("none": none does), which the catch of
\* the handler answers 500.  The request that the handler creates is
\* another document than the one followed here.  indexOpen and inRadius
\* are history: the connection was open, and the users the store holds
\* within the radius, whatever their flags.
PostRequests(u, body, failsAt, pushOk, socketOk) ==
  /\ protect(u)
  /\ IF validationErrors(body) # {}
     THEN /\ Reply("create", u, "ValidationError", {})
          /\ UNCHANGED <<created, users, found>>
     ELSE LET request == create(body, u, now)
              nearbyUsers == findNearbyUsers(body.coordinates[2], body.coordinates[1],
                                             request.radius)
              b == broadcastNewRequestToNearbyUsers(nearbyUsers.users, socketOk)
              n == notifyNearbyUsersOfNewRequest(request, nearbyUsers.users, pushOk)
          IN /\ users[u].requestsSent < MaxSent
             /\ created' = IF failsAt = "create" THEN created ELSE request
             /\ users' = IF failsAt \in {"create", "stats"} THEN users
                         ELSE [users EXCEPT ![u].requestsSent = @ + 1]
             /\ found' = IF failsAt # "none" THEN found
                         ELSE [ latitude |-> body.coordinates[2],
                                longitude |-> body.coordinates[1],
                                radiusKm |-> request.radius, indexOpen |-> redisOpen,
                                path |-> nearbyUsers.path, scanned |-> nearbyUsers.scanned,
                                users |-> nearbyUsers.users,
                                inRadius |-> findNearbyUnfiltered(body.coordinates, request.radius) ]
             /\ IF failsAt # "none" THEN Reply("create", u, "ServerError", {})
                ELSE IF b.thrown \/ n.thrown
                THEN Reply("create", u, "ServerError", b.issued \cup n.issued)
                ELSE Reply("create", u, "ok", b.issued \cup n.issued)
  /\ UNCHANGED <<redisOpen, cells, userKey, reports, upserts>>
  /\ UNCHANGED <<now, req, calls, nCalls, stats, sweepCommitted, recording, history>>
  /\ UNCHANGED <<chats, deleted>>

\* ---------------------------------------------------- PUT /api/users/settings
\* the keys of allowedSettings that the model follows
Settings == {"emergencyNotifications", "helpNotifications", "socialNotifications",
             "locationSharing"}

PutSettings(u, key, value) ==
  /\ protect(u)
  /\ key \in Settings
  /\ users' = [users EXCEPT ![u][key] = value]
  /\ UNCHANGED <<redisOpen, cells, userKey, found, reports, upserts>>
  /\ UNCHANGED reqVars
  /\ UNCHANGED storeVars

\* ---------------------------------------------- POST /api/users/device-token
\* $pull of the token from every user that holds it, then $push to the
\* caller's deviceTokens
PostDeviceToken(u, token) ==
  /\ protect(u)
  /\ users' = [v \in DOMAIN users |->
                [users[v] EXCEPT !.deviceTokens =
                   IF v = u THEN @ \cup {token} ELSE @ \ {token}]]
  /\ UNCHANGED <<redisOpen, cells, userKey, found, reports, upserts>>
  /\ UNCHANGED reqVars
  /\ UNCHANGED storeVars

\* -------------------------------------------- DELETE /api/users/device-token
DeleteDeviceToken(u, token) ==
  /\ protect(u)
  /\ users' = [users EXCEPT ![u].deviceTokens = @ \ {token}]
  /\ UNCHANGED <<redisOpen, cells, userKey, found, reports, upserts>>
  /\ UNCHANGED reqVars
  /\ UNCHANGED storeVars

\* -------------------------------------------------- PUT /api/users/deactivate
PutDeactivate(u) ==
  /\ protect(u)
  /\ users' = [users EXCEPT ![u].isActive = FALSE]
  /\ UNCHANGED <<redisOpen, cells, userKey, found, reports, upserts>>
  /\ UNCHANGED reqVars
  /\ UNCHANGED storeVars

\* the clock, for the runs that only report locations
LocationTick ==
  /\ now < MaxTime
  /\ now' = now + 1
  /\ UNCHANGED <<req, calls, nCalls, stats, out, sweepCommitted, recording, history, sent>>
  /\ UNCHANGED locVars
  /\ UNCHANGED storeVars

\* ------------------------------------------------------------------- Init
\* a request with maxAcceptors = k has been created, nothing else has run
InitRequestOf(k) ==
  /\ now = 0
  /\ req = NewRequest(k, 1)
  /\ calls = EmptyBag
  /\ nCalls = 0
  /\ stats = [u \in AllUsers |-> 0]
  /\ out = NoResponse
  /\ sweepCommitted = FALSE
  /\ history = EmptyBag
  /\ sent = {}
  /\ chats = EmptyBag
  /\ deleted = FALSE
  /\ created = Nil

InitRequest == \E k \in 1..MaxK : InitRequestOf(k)

\* the server starts after connectRedis() has succeeded; nothing has been
\* written to Redis
InitLocation ==
  /\ redisOpen = TRUE
  /\ cells = {}
  /\ userKey = <<>>
  /\ users = [u \in Reporters |-> NewUser]
  /\ found = NoFind
  /\ reports = [u \in Reporters |-> NoReport]
  /\ upserts = [u \in Reporters |-> <<>>]

Init == InitRequest /\ InitLocation /\ recording = FALSE

\* the users have registered; those who do not report in the run have
\* reported a position before (through PUT /api/location, which leaves the
\* grid alone)
InitNearby ==
  /\ InitRequestOf(1) /\ recording = FALSE
  /\ redisOpen = TRUE
  /\ cells = {}
  /\ userKey = <<>>
  /\ \E p \in Positions :
       users = [u \in Residents |->
                  IF u \in Reporters THEN NewUser
                  ELSE [NewUser EXCEPT !.coordinates = <<p.longitude, p.latitude>>]]
  /\ found = NoFind
  /\ reports = [u \in Reporters |-> NoReport]
  /\ upserts = [u \in Reporters |-> <<>>]

InitHistory == InitRequest /\ InitLocation /\ recording = TRUE

Next ==
  \/ \E u \in Acceptors, m \in Messages : AcceptLoad(u, m)
  \/ AcceptSave
  \/ AcceptPost(TRUE, TRUE)
  \/ AcceptChat(TRUE, TRUE)
  \/ \E u \in Acceptors : CancelLoad(u)
  \/ CancelSave
  \/ CancelPost
  \/ \E s \in NewStatuses, r \in Ratings, f \in Feedbacks :
       StatusLoad(Requester, s, r, f)
  \/ StatusSave(TRUE, TRUE)
  \/ cleanupExpiredRequests
  \/ Tick

NextLocation ==
  \/ \E u \in Reporters, p \in Positions : PutUsersLocation(u, p)
  \/ \E u \in Reporters, p \in Positions : PutLocation(u, p)
  \/ \E u \in Reporters, p \in Positions : PostLocationShare(u, p)
  \/ RedisEnd
  \/ RedisReady
  \/ LocationTick

\* the request handlers and the sweep.  The sweep runs in a process that
\* has called cleanupExpiredRequests() of utils/scheduler.js; the runs
\* without a step of it are those of a process that has not.
Spec == Init /\ [][Next]_vars

\* the process started by server.js: startServer connects to MongoDB and
\* Redis and listens; neither it nor any module it requires calls
\* cleanupExpiredRequests(), so no cron task is registered and the steps
\* are those of the route handlers
NextService ==
  \/ \E u \in Acceptors, m \in Messages : AcceptLoad(u, m)
  \/ AcceptSave
  \/ AcceptPost(TRUE, TRUE)
  \/ AcceptChat(TRUE, TRUE)
  \/ \E u \in Acceptors : CancelLoad(u)
  \/ CancelSave
  \/ CancelPost
  \/ \E s \in NewStatuses, r \in Ratings, f \in Feedbacks :
       StatusLoad(Requester, s, r, f)
  \/ StatusSave(TRUE, TRUE)
  \/ Tick

\* time passes and a handler that has started runs to its end; nothing
\* makes a client send a call
FairService ==
  /\ WF_vars(Tick)
  /\ WF_vars(AcceptSave) /\ WF_vars(AcceptPost(TRUE, TRUE)) /\ WF_vars(AcceptChat(TRUE, TRUE))
  /\ WF_vars(CancelSave) /\ WF_vars(CancelPost)
  /\ WF_vars(StatusSave(TRUE, TRUE))

SpecService == Init /\ [][NextService]_vars /\ FairService

\* the same, with the completed calls recorded
SpecHistory == InitHistory /\ [][Next]_vars

\* the requester also tries to accept
NextSelf ==
  \/ Next
  \/ \E m \in Messages : AcceptLoad(Requester, m)

SpecSelf == Init /\ [][NextSelf]_vars

\* the acceptors also try to update the status of the request they accept
NextOthers ==
  \/ \E u \in Acceptors, m \in Messages : AcceptLoad(u, m)
  \/ AcceptSave
  \/ AcceptPost(TRUE, TRUE)
  \/ AcceptChat(TRUE, TRUE)
  \/ \E u \in Acceptors \cup {Requester}, s \in NewStatuses, r \in Ratings, f \in Feedbacks :
       StatusLoad(u, s, r, f)
  \/ StatusSave(TRUE, TRUE)
  \/ Tick

SpecOthers == Init /\ [][NextOthers]_vars

\* a third user also tries to accept
NextThird ==
  \/ Next
  \/ \E m \in Messages : AcceptLoad(Third, m)

SpecThird == Init /\ [][NextThird]_vars

\* a user may have two accepts in flight
NextAgain ==
  \/ Next
  \/ \E u \in Acceptors, m \in Messages : AcceptLoadAgain(u, m)

SpecAgain == Init /\ [][NextAgain]_vars

\* the request is also read
NextRead ==
  \/ Next
  \/ \E u \in Acceptors \cup {Requester} : GetLoad(u)
  \/ GetSave

SpecRead == Init /\ [][NextRead]_vars

\* the request is also deleted
NextDelete ==
  \/ Next
  \/ \E u \in Acceptors \cup {Requester} : DeleteLoad(u)
  \/ DeleteCommit

SpecDelete == Init /\ [][NextDelete]_vars

\* the chat of the request with a user is also asked for
NextChat ==
  \/ Next
  \/ \E u, v \in Acceptors \cup {Requester} : ChatLoad(u, v)
  \/ ChatFind
  \/ ChatCreate

SpecChat == Init /\ [][NextChat]_vars

\* the accepts of every user, with what undoes an acceptance and what
\* removes the request, before the request expires
NextRejections ==
  \/ \E u \in AllUsers, m \in Messages : AcceptLoad(u, m)
  \/ AcceptSave
  \/ AcceptPost(TRUE, TRUE)
  \/ AcceptChat(TRUE, TRUE)
  \/ \E u \in Acceptors : CancelLoad(u)
  \/ CancelSave
  \/ CancelPost
  \/ DeleteLoad(Requester)
  \/ DeleteCommit

SpecRejections == Init /\ [][NextRejections]_vars

\* the push transport and the sockets may fail: requests are created, and
\* the request followed is accepted and closed
NextFailing ==
  \/ \E u \in Acceptors : AcceptLoad(u, "")
  \/ AcceptSave
  \/ \E pushOk, socketOk \in BOOLEAN : AcceptPost(pushOk, socketOk)
  \/ \E pushOk, socketOk \in BOOLEAN : AcceptChat(pushOk, socketOk)
  \/ \E s \in NewStatuses, r \in Ratings, f \in Feedbacks :
       StatusLoad(Requester, s, r, f)
  \/ \E pushOk, socketOk \in BOOLEAN : StatusSave(pushOk, socketOk)
  \/ \E u \in Reporters, pushOk, socketOk \in BOOLEAN :
       PostRequests(u, Body("help", [latitude |-> 0, longitude |-> 0]), "none", pushOk, socketOk)

SpecFailing == Init /\ [][NextFailing]_vars

\* the location reports
SpecLocation == Init /\ [][NextLocation]_vars

NextNearby ==
  \/ \E u \in Reporters, p \in Positions : protect(u) /\ PutUsersLocation(u, p)
  \/ \E u \in Residents, b \in BOOLEAN : PutSettings(u, "locationSharing", b)
  \/ \E u \in Residents : PutDeactivate(u)
  \/ \E u \in Reporters, o \in Origins, r \in RadiiKm :
       PostRequests(u, Body("help", o) @@ [radius |-> r], "none", TRUE, TRUE)
  \/ RedisEnd
  \/ RedisReady

\* the searches for nearby users
SpecNearby == InitNearby /\ [][NextNearby]_vars

\* the users have registered and Redis is connected
InitMoves ==
  /\ InitRequestOf(1) /\ recording = TRUE
  /\ redisOpen = TRUE
  /\ cells = {}
  /\ userKey = <<>>
  /\ users = [u \in Residents |-> NewUser]
  /\ found = NoFind
  /\ reports = [u \in Residents |-> NoReport]
  /\ upserts = [u \in Residents |-> <<>>]

\* location reports of several users, and of one user from several
\* devices, that overlap
NextMoves ==
  \/ \E u \in Residents, p \in Positions : PutUsersLocationStore(u, p)
  \/ PutUsersLocationIndex
  \/ RedisEnd
  \/ RedisReady

SpecMoves == InitMoves /\ [][NextMoves]_vars

\* acceptances, and chats asked for by the requester and the acceptors
\* with any user; no acceptance is withdrawn
NextTalk ==
  \/ \E u \in Acceptors : AcceptLoad(u, "")
  \/ AcceptSave
  \/ AcceptPost(TRUE, TRUE)
  \/ AcceptChat(TRUE, TRUE)
  \/ \E u \in Acceptors \cup {Requester}, userId \in AllUsers : ChatLoad(u, userId)
  \/ ChatFind
  \/ ChatCreate

SpecTalk == Init /\ [][NextTalk]_vars

\* a database call of the create and of the accept handler may reject
NextErrors ==
  \/ \E u \in Acceptors : AcceptLoad(u, "")
  \/ AcceptSave
  \/ AcceptPost(TRUE, TRUE)
  \/ AcceptChat(TRUE, TRUE)
  \/ \E failsAt \in {"stats", "chat"} : AcceptRejected(failsAt)
  \/ \E u \in Reporters, failsAt \in Steps \cup {"none"} :
       PostRequests(u, Body("help", [latitude |-> 0, longitude |-> 0]), failsAt, TRUE, TRUE)

SpecErrors == Init /\ [][NextErrors]_vars

\* the bodies of the requests that are announced: every type, around the
\* default position of a User document, with the default radius and with
\* the smallest
Announced ==
  {Body(type, [latitude |-> 0, longitude |-> 0]) : type \in Types}
  \cup {Body(type, [latitude |-> 0, longitude |-> 0]) @@ [radius |-> 1] : type \in Types}

\* the users set their notification preferences and register and remove
\* device tokens; requests of every type are created
NextPush ==
  \/ \E u \in Residents, key \in Settings \ {"locationSharing"}, b \in BOOLEAN :
       PutSettings(u, key, b)
  \/ \E u \in Residents, token \in Tokens : PostDeviceToken(u, token)
  \/ \E u \in Residents, token \in Tokens : DeleteDeviceToken(u, token)
  \/ \E u \in Reporters, body \in Announced : PostRequests(u, body, "none", TRUE, TRUE)

SpecPush == InitNearby /\ [][NextPush]_vars

\* the values given to an optional integer field of the body: the two
\* ends of its range [lo, hi] and the integers next to them outside
Around(field, lo, hi) == {[f \in {field} |-> n] : n \in {lo - 1, lo, hi, hi + 1}}

\* the bodies sent to POST /api/requests: every type with neither optional
\* field, and help with a radius around [1, 50] or a maxAcceptors around
\* [1, 10]
Bodies ==
  {Body(type, [latitude |-> 0, longitude |-> 0]) : type \in Types}
  \cup { Body("help", [latitude |-> 0, longitude |-> 0]) @@ given :
           given \in Around("radius", 1, 50) \cup Around("maxAcceptors", 1, 10) }

\* requests are created with well-formed and malformed bodies while the
\* clock runs and a database call of the handler may reject
NextCreate ==
  \/ \E u \in Reporters, body \in Bodies, failsAt \in Steps \cup {"none"} :
       PostRequests(u, body, failsAt, TRUE, TRUE)
  \/ \E u \in Reporters, token \in Tokens : PostDeviceToken(u, token)
  \/ LocationTick

SpecCreate == Init /\ [][NextCreate]_vars

\* ================================================================= claims

\* C1: the persisted acceptedBy never holds more than maxAcceptors entries,
\* whatever the interleaving of the accept calls.
CapacityInvariant == Len(req.acceptedBy) <= req.maxAcceptors

\* C2: when the number of entries in acceptedBy has reached maxAcceptors the
\* persisted status is not active.
FullIsNotActive == Len(req.acceptedBy) >= req.maxAcceptors => req.status # "active"

\* C3: an accept that finds the request active although expiresAt has
\* elapsed answers NotActive, records no acceptance for its caller and
\* leaves the request expired.  The call answers either in its first step
\* (it read the stored request there) or after its save.
ExpiredAcceptRejected ==
  [][ /\ \A u \in Acceptors :
           ( /\ nCalls' = nCalls + 1 /\ out'.op = "accept" /\ out'.user = u
             /\ req.status = "active" /\ req.expiresAt < now )
           => ( /\ out'.result = "NotActive"
                /\ req'.acceptedBy = req.acceptedBy
                /\ req'.status = "expired" )
      /\ \A c \in InFlight :
           ( /\ c.op = "accept"
             /\ c.snap.status = "active" /\ c.elapsed )
           => ( /\ ~hasAccepted(req', c.user)
                /\ calls' = calls (-) SetToBag({c})
                   => (out'.result = "NotActive" /\ req'.status = "expired") )
    ]_vars

\* C4: an accept whose write comes after the sweep has committed the
\* transition to expired persists nothing (no acceptance, no response
\* record, status still expired) and answers NotActive.
SweepBeatsAccept ==
  [][ \A c \in InFlight :
        ( /\ c.op = "accept" /\ c.pc = "save" /\ c.snap.status = "active"
          /\ sweepCommitted /\ req.status = "expired"
          /\ calls' = (calls (-) SetToBag({c})) (+) SetToBag({[c EXCEPT !.pc = "post"]}) )
        => ( /\ req'.acceptedBy = req.acceptedBy
             /\ req'.responses = req.responses
             /\ req'.status = "expired" )
    ]_vars

\* ---- serial executions, for C5
Times == 0..MaxTime

\* a handler run alone: its snapshot is the stored document
Alone(doc, s, t) ==
  [ op |-> s.op, user |-> s.user, message |-> "", newStatus |-> s.newStatus,
    rating |-> 0, feedback |-> "", snap |-> doc, elapsed |-> FALSE, pc |-> "save" ]

serialCall(doc, s, t) ==
  IF s.op = "accept"
  THEN IF acceptChecks(doc, s.user) = "pass" THEN acceptWrite(doc, Alone(doc, s, t), t) ELSE doc
  ELSE IF s.op = "cancel" THEN cancelWrite(doc, Alone(doc, s, t), t)
  ELSE IF doc.requester # s.user THEN doc ELSE statusWrite(doc, Alone(doc, s, t), t)

\* the expiry transition may take place before any call, at any time
MaybeSwept(doc) == {doc} \cup {sweep(doc, t) : t \in Times}

RECURSIVE SerialOutcomes(_, _)
\* the documents some serial execution of the calls in bag h leaves
SerialOutcomes(doc, h) ==
  IF BagToSet(h) = {} THEN MaybeSwept(doc)
  ELSE UNION { UNION { SerialOutcomes(serialCall(d, s, t), h (-) SetToBag({s}))
                       : d \in MaybeSwept(doc), t \in Times }
               : s \in BagToSet(h) }

Persisted(doc) == <<doc.status, doc.acceptedBy>>

\* C5: once every call has completed, the persisted status and acceptedBy
\* are those of some serial execution of the completed calls and of the
\* expiry transition.  (The serial executions are given every freedom: any
\* order, any clock value for each call.)
SerialEquivalence ==
  (recording /\ BagToSet(calls) = {})
  => Persisted(req) \in
       { Persisted(d) : d \in SerialOutcomes(NewRequest(req.maxAcceptors, req.expiresAt), history) }

\* the save of a cancelAcceptance of user u is committed in this step
CancelCommits(u) ==
  \E c \in InFlight :
    /\ c.op = "cancel" /\ c.user = u /\ c.pc = "save"
    /\ calls' = (calls (-) SetToBag({c})) (+) SetToBag({[c EXCEPT !.pc = "post"]})

\* the save of an accept of user u is committed in this step
AcceptCommits(u) ==
  \E c \in InFlight :
    /\ c.op = "accept" /\ c.user = u /\ c.pc = "save"
    /\ calls' = (calls (-) SetToBag({c})) (+) SetToBag({[c EXCEPT !.pc = "post"]})

\* C6: the save of an accept of u leaves u in the persisted acceptedBy, and
\* from then on only the save of u's own cancelAcceptance takes u out of it:
\* no call of another user removes or overwrites the acceptance.
AcceptNeverLost ==
  [][ \A u \in Acceptors :
        /\ AcceptCommits(u) => hasAccepted(req', u)
        /\ (hasAccepted(req, u) /\ ~hasAccepted(req', u)) => CancelCommits(u)
    ]_vars

\* C6 witness: u's accept has just answered success and u is in acceptedBy,
\* while a cancelAcceptance of another user, loaded before u's save, is
\* still about to write the array it filtered.
AcceptNeverLostWitness ==
  /\ out.op = "accept" /\ out.result = "ok" /\ hasAccepted(req, out.user)
  /\ \E c \in InFlight :
       /\ c.op = "cancel" /\ c.user # out.user /\ c.pc = "save"
       /\ cancelModifiesArray(c) /\ ~hasAccepted(c.snap, out.user)

\* a findNearbyUsers call completes in this step
Searched == found' # found

\* C11: a findNearby made while the grid index is unavailable scans no cell
\* and returns what the authoritative store's radius query returns for the
\* same origin and radius.
FallbackIsAuthoritative ==
  [][ (Searched /\ ~found'.indexOpen)
      => /\ found'.scanned = {}
         /\ found'.users = findNearby(<<found'.longitude, found'.latitude>>, found'.radiusKm)
    ]_vars

\* C11 witness: a search made while the connection was closed has returned
\* a user, and not every user.
FallbackIsAuthoritativeWitness ==
  /\ found.radiusKm > 0 /\ ~found.indexOpen
  /\ found.users # {} /\ found.users # Residents

\* C12: the ids a findNearby made while the grid index is available works
\* with are those of the members of the 9 cells around the origin's cell
\* whose stored position is within radiusKm of the origin: a user who is a
\* member of no such cell is never returned, and a member within the
\* radius that is active and sharing is.
ScanKeepsMembersInRadius ==
  [][ (Searched /\ found'.indexOpen)
      => /\ found'.users \subseteq
              scanCells(cells, found'.latitude, found'.longitude, found'.radiusKm)
         /\ \A u \in scanCells(cells, found'.latitude, found'.longitude, found'.radiusKm) :
              (u \in DOMAIN users /\ users[u].isActive /\ users[u].locationSharing)
              => u \in found'.users
    ]_vars

\* C13: every user a findNearby returns has isActive and locationSharing
\* set, by whichever path the result was produced.
FoundAreActiveAndSharing ==
  [][ Searched => \A u \in found'.users : users[u].isActive /\ users[u].locationSharing
    ]_vars

\* C13 witness: a search has returned a user and left out another that the
\* store held within the radius at that moment.
FoundAreActiveAndSharingWitness ==
  /\ found.users # {}
  /\ found.inRadius \ found.users # {}

\* a PUT /api/users/location of u completes in this step
Upserted(u) == reports'[u].route = "PUT /api/users/location" /\ reports'[u] # reports[u]

\* C15: an updateUserLocation made while the backing store of the grid is
\* unreachable changes no cell membership and no reverse-lookup entry, and
\* the route that made it answers as usual.
UnreachableIndexIsNoOp ==
  [][ \A u \in Reporters :
        (Upserted(u) /\ ~redisOpen)
        => /\ cells' = cells /\ userKey' = userKey
           /\ users'[u].coordinates
                = <<reports'[u].position.longitude, reports'[u].position.latitude>>
    ]_vars

\* C15 witness: a report through PUT /api/users/location has completed
\* while the connection was closed.
UnreachableIndexIsNoOpWitness ==
  \E u \in Reporters :
    /\ reports[u].route = "PUT /api/users/location" /\ ~reports[u].indexOpen
    /\ users[u].coordinates
         = <<reports[u].position.longitude, reports[u].position.latitude>>
    /\ MemberCells(u) = {}

\* an accept call of u arrives in this step and is answered at once
AcceptAnswered(u) == nCalls' = nCalls + 1 /\ out'.op = "accept" /\ out'.user = u

\* an accept call of u arrives in this step and goes on to its save
AcceptAdmitted(u) ==
  /\ nCalls' = nCalls + 1
  /\ \E c \in BagToSet(calls') :
       c.op = "accept" /\ c.user = u /\ c.pc = "save" /\ calls' = calls (+) SetToBag({c})

\* C16: on a request with maxAcceptors = 2 that holds two acceptances, the
\* accept of a third user is answered CapacityReached and changes nothing.
ThirdAcceptorCapacityReached ==
  [][ \A u \in AllUsers \ {Requester} :
        ( /\ req.maxAcceptors = 2 /\ Len(req.acceptedBy) = 2 /\ ~hasAccepted(req, u) )
        => /\ ~AcceptAdmitted(u)
           /\ AcceptAnswered(u) => (out'.result = "CapacityReached" /\ req' = req)
    ]_vars

\* C17: an accept of the requester is answered SelfAcceptance whatever the
\* status, changes nothing, and the requester is never in acceptedBy.
SelfAcceptanceRejected ==
  [][ /\ ~AcceptAdmitted(Requester)
      /\ AcceptAnswered(Requester) => (out'.result = "SelfAcceptance" /\ req' = req)
      /\ ~hasAccepted(req', Requester)
    ]_vars

\* C17 witness: the requester's accept was answered SelfAcceptance on a
\* request that is no longer active.
SelfAcceptanceRejectedWitness ==
  /\ out = [op |-> "accept", user |-> Requester, result |-> "SelfAcceptance"]
  /\ req.status # "active"
  /\ req.acceptedBy # <<>>

\* C18: no user has two entries in the persisted acceptedBy, also when the
\* user has two accepts in flight; an accept of a user who is in acceptedBy
\* of an active request is answered AlreadyAccepted.
NoDuplicateAcceptance ==
  [][ /\ \A i, j \in DOMAIN req'.acceptedBy :
           i # j => req'.acceptedBy[i].user # req'.acceptedBy[j].user
      /\ \A u \in Acceptors :
           (req.status = "active" /\ hasAccepted(req, u))
           => /\ ~AcceptAdmitted(u)
              /\ AcceptAnswered(u) => out'.result = "AlreadyAccepted"
    ]_vars

\* an updateStatus call of u arrives in this step and is answered at once
StatusAnswered(u) == nCalls' = nCalls + 1 /\ out'.op = "status" /\ out'.user = u

\* an updateStatus call of u arrives in this step and goes on to its save
StatusAdmitted(u) ==
  /\ nCalls' = nCalls + 1
  /\ \E c \in BagToSet(calls') :
       c.op = "status" /\ c.user = u /\ calls' = calls (+) SetToBag({c})

\* C21: an updateStatus of a user who is not the requester is answered
\* Forbidden in the step it arrives, never reaches its save, leaves the
\* request (status, completedAt, rating, feedback) as it is and issues no
\* notification.
OnlyRequesterUpdatesStatus ==
  [][ \A u \in AllUsers \ {req.requester} :
        /\ ~StatusAdmitted(u)
        /\ StatusAnswered(u)
           => /\ out'.result = "Forbidden"
              /\ req' = req
              /\ sent' = {}
    ]_vars

\* C21 witness: a user who has accepted the request tried to complete it and
\* was answered Forbidden; the request is as the accept left it.
OnlyRequesterUpdatesStatusWitness ==
  /\ out.op = "status" /\ out.result = "Forbidden"
  /\ hasAccepted(req, out.user)
  /\ req.status = "accepted" /\ req.completedAt = NoDate /\ req.rating = 0

\* the updateStatus c answers success in this step
StatusSucceeds(c) ==
  /\ c.op = "status" /\ c.pc = "save"
  /\ calls' = calls (-) SetToBag({c})
  /\ out' = [op |-> "status", user |-> c.user, result |-> "ok"]

\* C22: when an updateStatus(newStatus) of the requester answers success,
\* the persisted status is newStatus, whatever the status was before.
StatusBecomesNewStatus ==
  [][ \A c \in InFlight : StatusSucceeds(c) => req'.status = c.newStatus ]_vars

Terminal == {"completed", "cancelled", "expired"}

\* C23: once the persisted status is completed, cancelled or expired, no
\* step of any operation changes it.
TerminalIsAbsorbing ==
  [][ req.status \in Terminal => req'.status = req.status ]_vars

\* a read of u answers success in this step
GetAnswered(u) == out' = [op |-> "get", user |-> u, result |-> "ok"]

\* C24: a get of any caller, the save of an accept and the save of a
\* cancelAcceptance that find the stored request active with expiresAt
\* elapsed leave it with status expired.
TouchExpires ==
  [][ (req.status = "active" /\ req.expiresAt < now)
      => /\ \A u \in AllUsers : GetAnswered(u) => req'.status = "expired"
         /\ \A u \in Acceptors : AcceptCommits(u) => req'.status = "expired"
         /\ \A u \in Acceptors : CancelCommits(u) => req'.status = "expired"
    ]_vars

\* a step of the sweep: no handler moves and the clock stands
Swept == calls' = calls /\ nCalls' = nCalls /\ now' = now

\* C25: a sweep sets the status to expired when the request is active with
\* expiresAt <= now and leaves the request alone otherwise; it changes no
\* other field, counter or document, and after it the request no longer
\* matches, so that a repeated or overlapping sweep changes nothing more.
SweepIsExact ==
  [][ Swept
      => /\ req' = IF req.status = "active" /\ req.expiresAt <= now
                   THEN [req EXCEPT !.status = "expired"] ELSE req
         /\ ~(req'.status = "active" /\ req'.expiresAt <= now)
         /\ stats' = stats /\ chats' = chats /\ deleted' = deleted
    ]_vars

\* C25 witness: the request is expired at the very instant expiresAt (the
\* pre-save hook expires only after it), with an acceptance in place.
SweepIsExactWitness ==
  /\ req.status = "expired" /\ now = req.expiresAt
  /\ req.acceptedBy # <<>>

\* C26: in the running service a request that is active after its expiresAt
\* eventually has another status, also when no client touches it again.
EventuallyExpired ==
  (req.status = "active" /\ req.expiresAt < now) ~> (req.status # "active")

\* C27: the step in which a deletion takes effect is a step of a delete of
\* the requester, and the persisted acceptedBy is empty at that moment.
DeletedOnlyUnaccepted ==
  [][ (deleted' /\ ~deleted)
      => /\ out' = [op |-> "delete", user |-> req.requester, result |-> "ok"]
         /\ req.acceptedBy = <<>>
    ]_vars

\* the Chat documents of the request whose participants are u and v
ChatsOf(u, v) ==
  { c \in BagToSet(chats) : \A w \in {u, v} : \E j \in DOMAIN c.participants : c.participants[j] = w }

\* C28: whatever findOrCreate calls have run or are running for two users
\* and the request, the store holds at most one Chat for the pair, and
\* exactly one once a call has created or returned it.
OneChatPerPair ==
  \A u, v \in AllUsers :
    u # v => \A c \in ChatsOf(u, v) : CopiesIn(c, chats) = 1 /\ ChatsOf(u, v) = {c}

\* the chat of the requester with u
ChatWith(u) == Chat(sortParticipants(<<req.requester, u>>))

\* C29: a step that creates the chat of the requester with u, or that
\* notifies the requester of u's acceptance, is a step of an accept of u
\* whose acceptance is in the persisted acceptedBy already; an accept that
\* does not answer success (NotFound, SelfAcceptance, NotActive,
\* AlreadyAccepted, CapacityReached, or a failed save) creates no chat and
\* issues no notice.
SideEffectsFollowCommit ==
  [][ /\ \A u \in AllUsers :
           CopiesIn(ChatWith(u), chats') > CopiesIn(ChatWith(u), chats)
           => /\ hasAccepted(req, u)
              /\ \E c \in InFlight : c.op = "accept" /\ c.user = u /\ c.pc = "chat"
      /\ \A n \in sent' :
           n.kind = "request_accepted"
           => /\ out'.op = "accept" /\ out'.result = "ok"
              /\ hasAccepted(req, out'.user)
              /\ CopiesIn(ChatWith(out'.user), chats') > 0
      /\ (out'.op = "accept" /\ out'.result # "ok" /\ out' # out)
           => (chats' = chats /\ sent' = {})
    ]_vars

\* C29 witness: an accept has answered success in the step that created the
\* chat and notified the requester, with the acceptance persisted.
SideEffectsFollowCommitWitness ==
  /\ out.op = "accept" /\ out.result = "ok"
  /\ hasAccepted(req, out.user)
  /\ CopiesIn(ChatWith(out.user), chats) = 1
  /\ \E n \in sent : n.kind = "request_accepted" /\ n.to = {req.requester}

\* C30: a step in which a push notification or a socket event is not
\* delivered answers success all the same, with its change persisted: the
\* created request is in the store, the acceptance is in acceptedBy, the
\* new status is written.
DeliveryFailuresAbsorbed ==
  [][ (\E n \in sent' : ~n.delivered)
      => /\ out'.result = "ok"
         /\ out'.op = "create" => (created' # Nil /\ created'.requester = out'.user)
         /\ out'.op = "accept"
              => /\ hasAccepted(req', out'.user)
                 /\ CopiesIn(ChatWith(out'.user), chats') > 0
         /\ out'.op = "status"
              => \A c \in InFlight :
                   (StatusSucceeds(c) /\ c.snap.status # c.newStatus)
                   => req'.status = c.newStatus
    ]_vars

\* C30 witness: an accept has answered success with the acceptance
\* persisted although the push to the requester failed.
DeliveryFailuresAbsorbedWitness ==
  /\ out.op = "accept" /\ out.result = "ok"
  /\ hasAccepted(req, out.user)
  /\ \E n \in sent : n.kind = "request_accepted" /\ ~n.delivered

\* the save of the cancelAcceptance c is committed in this step
CancelSaved(c) ==
  /\ c.op = "cancel" /\ c.pc = "save"
  /\ calls' = (calls (-) SetToBag({c})) (+) SetToBag({[c EXCEPT !.pc = "post"]})

\* the save of the cancelAcceptance c fails in this step
CancelFailed(c) ==
  /\ c.op = "cancel" /\ c.pc = "save"
  /\ calls' = calls (-) SetToBag({c}) /\ out'.result = "ServerError"

\* C19: the save of a cancelAcceptance never takes the status from accepted
\* to active; a cancelAcceptance that loaded the request with status
\* accepted leaves the status as it is, and an accept that arrives while the
\* status is accepted is not admitted: it is answered with a rejection.
CancelKeepsAccepted ==
  [][ /\ \A c \in InFlight :
           CancelSaved(c)
           => /\ req.status = "accepted" => req'.status # "active"
              /\ c.snap.status = "accepted" => req'.status = req.status
      /\ \A u \in Acceptors :
           req.status = "accepted"
           => /\ ~AcceptAdmitted(u)
              /\ AcceptAnswered(u) => (out'.result = "NotActive" /\ req' = req)
    ]_vars

\* C19 witness: a cancelAcceptance has answered success, the status is
\* accepted and fewer than maxAcceptors acceptances remain.
CancelKeepsAcceptedWitness ==
  /\ out.op = "cancel" /\ out.result = "ok"
  /\ req.status = "accepted"
  /\ Len(req.acceptedBy) < req.maxAcceptors

\* C20: the save of a cancelAcceptance of u removes every entry of u from
\* the persisted acceptedBy and no entry of another user; when u has no
\* entry (never accepted, or cancelled before) the save leaves acceptedBy
\* unchanged and does not fail.
CancelIsIdempotent ==
  [][ \A c \in InFlight :
        /\ CancelSaved(c)
           => /\ ~hasAccepted(req', c.user)
              /\ \A v \in Acceptors \ {c.user} :
                   SelectSeq(req'.acceptedBy, LAMBDA e : e.user = v)
                     = SelectSeq(req.acceptedBy, LAMBDA e : e.user = v)
              /\ ~hasAccepted(req, c.user) => req'.acceptedBy = req.acceptedBy
        /\ ~hasAccepted(req, c.user) => ~CancelFailed(c)
    ]_vars

\* C20 witness: a second cancelAcceptance of a user has been saved: the
\* user had accepted (the response record of that accept is there), the
\* entry was gone when the call loaded the request, and acceptedBy is as
\* the call found it.
CancelIsIdempotentWitness ==
  \E c \in InFlight :
    /\ c.op = "cancel" /\ c.pc = "post" /\ ~hasAccepted(c.snap, c.user)
    /\ \E i \in DOMAIN req.responses : req.responses[i].user = c.user
    /\ req.acceptedBy = c.snap.acceptedBy

\* C7: once updateUserLocation calls for a user have completed, the user is
\* a member of exactly one cell and the reverse lookup names that cell.
OneCellAfterUpserts ==
  \A u \in Reporters :
    upserts[u] # <<>> =>
      /\ Cardinality(MemberCells(u)) = 1
      /\ MemberCells(u) = {redisGet(userKey, u)}

\* C8: after updateUserLocation(u, p1) and then updateUserLocation(u, p2)
\* with different cells, u is a member of the cell of p2 only and the
\* reverse lookup names the cell of p2.
MigratedToNewCell ==
  \A u \in Reporters :
    (Len(upserts[u]) = 2 /\ cellOf(upserts[u][1]) # cellOf(upserts[u][2])) =>
      /\ MemberCells(u) = {cellOf(upserts[u][2])}
      /\ redisGet(userKey, u) = cellOf(upserts[u][2])

\* the three effects of moving u from cell old to the cell of p
Removed(hashes, u, old) == \A e \in hashes : ~(e.cell = old /\ e.user = u)
Written(hashes, u, p) ==
  [cell |-> cellOf(p), user |-> u, value |-> Coords(p.latitude, p.longitude)] \in hashes
Repointed(keys, u, p) == redisGet(keys, u) = cellOf(p)

ReportReachesIndex ==
  \A u \in Reporters :
    (reports[u].route # "" /\ reports[u].indexOpen) =>
      Written(cells, u, reports[u].position)

\* a POST /api/requests of u gets past its $inc of stats.requestsSent in
\* this step
Counted(u) == users'[u].requestsSent = users[u].requestsSent + 1

\* a POST /api/requests of u runs to its response in this step
Announces(u) == Counted(u) /\ out' = [op |-> "create", user |-> u, result |-> "ok"]

\* the tokens the push notifications of kind reached in the last step
Pushed(issued, kind) == UNION {n.to : n \in {m \in issued : m.kind = kind}}

\* C31: the push notification of a new request of type T goes to exactly
\* the device tokens of the nearby users whose preference for T is enabled
\* (a user without a token contributes none); when there is no such token
\* nothing is sent, and the call is answered success.
PushReachesEligibleTokens ==
  [][ \A u \in Residents :
        Counted(u)
        => /\ Announces(u)
           /\ \A token \in Tokens :
                token \in Pushed(sent', "new_request")
                <=> \E v \in found'.users :
                      /\ users[v][created'.type \o "Notifications"]
                      /\ token \in users[v].deviceTokens
           /\ \A n \in sent' : n.kind = "new_request" => n.to # {}
    ]_vars

\* C31 witness: a request was announced to the token of one nearby user
\* and not to the token of another, who has the preference disabled.
PushReachesEligibleTokensWitness ==
  /\ out.op = "create" /\ out.result = "ok"
  /\ Pushed(sent, "new_request") # {}
  /\ \E v \in found.users :
       /\ users[v].deviceTokens # {}
       /\ ~users[v][created.type \o "Notifications"]
       /\ users[v].deviceTokens \cap Pushed(sent, "new_request") = {}

\* radius or maxAcceptors is given outside its range
OutOfRange(body) ==
  \/ "radius" \in DOMAIN body /\ (body.radius < 1 \/ body.radius > 50)
  \/ "maxAcceptors" \in DOMAIN body /\ (body.maxAcceptors < 1 \/ body.maxAcceptors > 10)

\* C32: a POST /api/requests whose radius is outside [1, 50] or whose
\* maxAcceptors is outside [1, 10] is answered with a validation error and
\* nothing else happens: no request is persisted, no counter changes, no
\* search is made and no event or notification is issued.
OutOfRangeRejectedFirst ==
  [][ \A u \in Reporters, body \in Bodies, failsAt \in Steps \cup {"none"} :
        (OutOfRange(body) /\ PostRequests(u, body, failsAt, TRUE, TRUE))
        => /\ out' = [op |-> "create", user |-> u, result |-> "ValidationError"]
           /\ created' = created
           /\ users' = users
           /\ found' = found
           /\ sent' = {}
    ]_vars

\* C32 witness: a validation error was answered after a request had been
\* created, counted and announced to a device, all of which are as they
\* were.
OutOfRangeRejectedFirstWitness ==
  /\ out.op = "create" /\ out.result = "ValidationError"
  /\ created # Nil /\ found.users # {}
  /\ users[out.user].requestsSent = 1
  /\ users[out.user].deviceTokens # {}

\* C33: a request created at t0 is active with an empty acceptedBy, and
\* its expiresAt is t0 + 4 hours when its type is emergency and t0 + 24
\* hours when it is help or social.
ExpiresAfterFourOrTwentyFourHours ==
  [][ created' # created
      => /\ created'.createdAt = now
         /\ created'.status = "active"
         /\ created'.acceptedBy = <<>>
         /\ created'.type = "emergency" => created'.expiresAt = now + Hours(4)
         /\ created'.type \in {"help", "social"} => created'.expiresAt = now + Hours(24)
    ]_vars

\* C33 witness: an emergency request was created after the clock had
\* moved.
ExpiresAfterFourOrTwentyFourHoursWitness ==
  /\ created # Nil
  /\ created.type = "emergency" /\ created.createdAt > 0
  /\ created.expiresAt = created.createdAt + Hours(4)

\* the overlapping calls completed so far: u's call ended after v's had
\* been in flight with it
Overlapped(u, v) ==
  \E h \in BagToSet(history) : h.op = "location" /\ h.user = u /\ v \in h.during

\* the grid after the calls of u and then of v, one after the other, on an
\* empty grid
Serially(u, v) ==
  LET first == updatedIndex(Index({}, <<>>), u, upserts[u][1].latitude, upserts[u][1].longitude)
  IN updatedIndex(first, v, upserts[v][1].latitude, upserts[v][1].longitude)

\* C34: when two distinct users have each completed one updateUserLocation
\* call, however the two calls were interleaved, the grid is the one that
\* the two calls leave when run one after the other, in either order.
UpsertsOfDifferentUsersCommute ==
  \A u, v \in Residents :
    (u # v /\ Len(upserts[u]) = 1 /\ Len(upserts[v]) = 1)
    => /\ Index(cells, userKey) = Serially(u, v)
       /\ Index(cells, userKey) = Serially(v, u)

\* C34 witness: the calls of two users for positions of one cell have
\* overlapped and completed while Redis was connected.
UpsertsOfDifferentUsersCommuteWitness ==
  \E u, v \in Residents :
    /\ u # v /\ Len(upserts[u]) = 1 /\ Len(upserts[v]) = 1
    /\ cellOf(upserts[u][1]) = cellOf(upserts[v][1])
    /\ Overlapped(u, v)
    /\ reports[u].indexOpen /\ reports[v].indexOpen

\* C35: the cell that a reverse-lookup entry names holds the user as a
\* member, in every state, overlapping calls of one user included.
ReverseLookupNamesMemberCell ==
  \A u \in DOMAIN userKey : userKey[u] \in MemberCells(u)

\* C35 witness: two calls of one user for positions of different cells
\* have overlapped and completed while Redis was connected.
ReverseLookupNamesMemberCellWitness ==
  \E u \in Residents :
    /\ Len(upserts[u]) = 2
    /\ cellOf(upserts[u][1]) # cellOf(upserts[u][2])
    /\ Overlapped(u, u)
    /\ reports[u].indexOpen

\* C37: a step that answers a server error to createRequest has persisted
\* no request, and one that answers it to accept leaves the caller out of
\* acceptedBy, whichever await of the handler failed.
ServerErrorLeavesStoreUnchanged ==
  [][ (out'.result = "ServerError" /\ out' # out)
      => /\ out'.op = "create" => created' = created
         /\ out'.op = "accept" => ~hasAccepted(req', out'.user)
    ]_vars

\* C38: every Chat of the request has two participants, the requester and
\* a user who has accepted the request (no acceptance is withdrawn in
\* these runs, so these are the users in acceptedBy).
ChatsLinkRequesterAndAcceptor ==
  \A c \in BagToSet(chats) : \E u \in AcceptedUsers(req) : c = ChatWith(u)

\* C39: the user who creates a request is not among the users that its
\* newNearbyRequest event is emitted to, and none of that user's device
\* tokens is among those of its push notification.
RequesterIsNotAnnouncedTo ==
  [][ \A u \in Residents :
        Counted(u)
        => /\ \A n \in sent' : n.kind = "newNearbyRequest" => u \notin n.to
           /\ users[u].deviceTokens \cap Pushed(sent', "new_request") = {}
    ]_vars

\* C40: whenever no call is in flight, each user's requestsAccepted is the
\* number of requests with the user in acceptedBy (one request is
\* followed: 1 or 0), and it is never negative.
AcceptedCounterMatches ==
  \A u \in AllUsers :
    /\ stats[u] >= 0
    /\ calls = EmptyBag => stats[u] = IF hasAccepted(req, u) THEN 1 ELSE 0
====
